---------------------------- MODULE Spec2Model ----------------------------
(***************************************************************************)
(* Model of src/src/index.ts (live-telemetry): the LiveRoom Durable Object *)
(* (a 30 s sample buffer plus a set of viewer WebSockets) and the Worker   *)
(* gateway that routes /live/<id> and /telemetry/<id> to rooms by name.    *)
(***************************************************************************)
EXTENDS Integers, Sequences, FiniteSets, TLC

\* ------------------------------------------------------------------ bounds
MaxConns == 2       \* WebSocketPairs created over a run
MaxIngests == 2     \* successful ingests over a run
MaxInflight == 3    \* slots for requests in progress
MaxPending == 1     \* ingests suspended at once in the specifications with many inputs

\* ------------------------------------------------------- program constants
WINDOW_MS == 30000

TELEMETRY_BEARER_TOKEN == "secret"

\* ------------------------------------------------------------- JS numbers
\* A JavaScript number as far as this program needs it: a finite integer,
\* NaN (Date.parse of an unparsable string) or -Infinity (the fold's seed).
Num(n) == [k |-> "num", v |-> n]
NaN == [k |-> "nan", v |-> 0]
NegInfinity == [k |-> "-inf", v |-> 0]

NumberIsFinite(x) == x.k = "num"

MathMax(a, b) ==
    IF a.k = "nan" \/ b.k = "nan" THEN NaN
    ELSE IF a.k = "-inf" THEN b
    ELSE IF b.k = "-inf" THEN a
    ELSE IF a.v >= b.v THEN a ELSE b

\* Date.parse on the timestamp strings the model feeds in: ISO 8601 UTC
\* strings give their epoch milliseconds, anything else gives NaN.
DateParse(str) ==
    CASE str = "1970-01-01T00:00:01.000Z" -> Num(1000)
      [] str = "1970-01-01T00:00:02.000Z" -> Num(2000)
      [] str = "1970-01-01T00:00:03.000Z" -> Num(3000)
      [] str = "1970-01-01T00:00:03.500Z" -> Num(3500)
      [] str = "1970-01-01T00:00:10.000Z" -> Num(10000)
      [] str = "1970-01-01T00:00:40.000Z" -> Num(40000)
      [] OTHER -> NaN

\* String.prototype.toLowerCase on the Upgrade header values fed in.
ToLowerCase(str) ==
    CASE str = "WebSocket" -> "websocket"
      [] str = "H2C" -> "h2c"
      [] OTHER -> str

\* ------------------------------------------------------------------ inputs
Sample(t, n) == [t_gps_utc |-> t, seq |-> n]

sA == Sample("1970-01-01T00:00:01.000Z", 1)
sB == Sample("1970-01-01T00:00:40.000Z", 2)
sX == Sample("not-a-date", 3)

\* A samples element that is the JSON value null: the cast to TelemetryBatch
\* checks nothing, and reading its t_gps_utc throws a TypeError.
NullElement == [t_gps_utc |-> "", seq |-> 0, isNull |-> TRUE]

\* The batches of Scenario A of the specification (the third is <<sB>>).
ScenarioA1 == << Sample("1970-01-01T00:00:01.000Z", 1),
                 Sample("1970-01-01T00:00:02.000Z", 2),
                 Sample("1970-01-01T00:00:03.000Z", 3) >>
ScenarioA2 == << Sample("1970-01-01T00:00:03.500Z", 4) >>
ScenarioA3 == << sB >>

\* A sample exactly 30000 ms older than Scenario A's last one.
sEdge == Sample("1970-01-01T00:00:10.000Z", 5)

\* The sample lists sent to a room: empty, unparsable only, one sample, an
\* unparsable sample before a good one, and the two good ones in both orders.
Batches == {<<>>, <<sX>>, <<sA>>, <<sB>>, <<sX, sA>>, <<sX, sB>>, <<sA, sB>>, <<sB, sA>>}

\* What request.json() yields: a throw ("invalid"), the value null, an
\* object without a samples field, or a TelemetryBatch.
Body(j, sid, has, ss) ==
    [json |-> j, session_id |-> sid, device_id |-> "dev-1",
     hasSamples |-> has, samples |-> ss]
NoBody == Body("invalid", "", FALSE, <<>>)
NullBody == Body("null", "", FALSE, <<>>)
NoSamplesBody == Body("object", "s1", FALSE, <<>>)
BatchBody(sid, ss) == Body("object", sid, TRUE, ss)

Bodies ==
    {NoBody, NullBody, NoSamplesBody}
        \cup {BatchBody("s1", b) : b \in Batches}
        \cup {BatchBody("s2", <<sA>>),
              BatchBody("s1", <<NullElement>>), BatchBody("s1", <<sA, NullElement>>)}

RoomNames == {"s1", "demo-session"}
Conns == 1 .. MaxConns
NoRoom == "-"
NoConn == 0

\* A URL pathname is modelled as its segments after the leading "/":
\* "/ingest" is <<"ingest">>, "/live/s1" is <<"live", "s1">>, "/live/" is
\* <<"live", "">> and "/" is <<"">>, so pathname.split("/")[k + 1] is path[k].
IngestPath == <<"ingest">>
RootPath == <<"">>

\* A request as LiveRoom.fetch sees it.
Request(u, p, m, b) == [upgrade |-> u, pathname |-> p, method |-> m, body |-> b]
NoRequest == Request("", <<>>, "", NoBody)

\* Requests made of a room directly. PUT stands for every verb other than
\* POST that can carry a body.
PutBodies == {NoBody, BatchBody("s1", <<sA>>), BatchBody("s1", <<sB, sA>>)}

RoomRequests ==
    {Request(u, RootPath, "GET", NoBody) : u \in {"websocket", "WebSocket"}}
        \cup {Request("", IngestPath, "POST", b) : b \in Bodies}
        \cup {Request("", IngestPath, "PUT", b) : b \in PutBodies}
        \cup {Request("WebSocket", IngestPath, "POST", BatchBody("s1", <<sA>>)),
              Request("h2c", IngestPath, "POST", BatchBody("s1", <<sB>>)),
              Request("", RootPath, "GET", NoBody),
              Request("", <<"ingest", "">>, "POST", BatchBody("s1", <<sA>>))}

\* A Response: status, body text, the JSON body of a success, and the client
\* end of the WebSocketPair of a 101.
Response(st, txt) ==
    [status |-> st, text |-> txt, ok |-> FALSE, received |-> 0, webSocket |-> NoConn]
JsonOk(n) ==
    [status |-> 200, text |-> "", ok |-> TRUE, received |-> n, webSocket |-> NoConn]
Switching(c) ==
    [status |-> 101, text |-> "", ok |-> FALSE, received |-> 0, webSocket |-> c]
\* An exception that leaves fetch: the runtime answers the caller with an error.
Uncaught == Response(500, "uncaught exception")
NoResponse == Response(0, "")

\* ------------------------------------------------------------------- state
VARIABLES
    buffer,     \* room -> sequence of BufferedSample (LiveRoom.buffer)
    sockets,    \* room -> set of server WebSockets (LiveRoom.sockets)
    home,       \* connection -> the room whose fetch created it, or NoRoom
    handlers,   \* connection -> whether its close/error/message listeners are installed
    outbox,     \* connection -> the messages ws.send was called with, in order
    signalled,  \* connections whose close or error event has fired
    ingests,    \* successful ingests so far (bounded by MaxIngests)
    op,         \* the operation that ran last
    resp,       \* the Response it returned
    threw,      \* the connections on which a send or close threw during it
    inflight    \* slot -> a request in progress and its position in the code

vars == <<buffer, sockets, home, handlers, outbox, signalled, ingests, op, resp, threw,
          inflight>>

\* A request as the Worker's fetch sees it.
GatewayRequest(p, a, u, m, b) ==
    [pathname |-> p, authorization |-> a, upgrade |-> u, method |-> m, body |-> b]
NoGateway == GatewayRequest(<<>>, "", "", "", NoBody)

\* The position of a request in progress: "idle" (no request), "forwarded"
\* (the Worker has called stub.fetch and the room has not run yet),
\* "decoding" (handleIngest is suspended at await request.json()),
\* "querying" (the Worker is suspended at await stmt.all()), "done" (the
\* request returned and is kept on record). born is the number of
\* WebSocketPairs created before the request suspended in handleIngest and
\* order its rank among the requests kept on record.
Slots == 1 .. MaxInflight
InProgress(pc, r, rq, g, n) ==
    [pc |-> pc, room |-> r, rq |-> rq, gw |-> g, born |-> n, order |-> 0]
Idle == InProgress("idle", NoRoom, NoRequest, NoGateway, 0)

\* kind: "init", "fetch" (a call of LiveRoom.fetch that returned), "gateway"
\* (a call of the Worker's fetch that returned; rq is then the request it
\* handed to the room, if any), "begin" (a call of LiveRoom.fetch that
\* suspended in handleIngest), "worker" (a call of the Worker's fetch that
\* suspended), "close", "error", "message" (a socket's event).
Op(kind, r, c, rq, g) == [kind |-> kind, room |-> r, conn |-> c, rq |-> rq, gw |-> g]

Init ==
    /\ buffer = [r \in RoomNames |-> <<>>]
    /\ sockets = [r \in RoomNames |-> {}]
    /\ home = [c \in Conns |-> NoRoom]
    /\ handlers = [c \in Conns |-> FALSE]
    /\ outbox = [c \in Conns |-> <<>>]
    /\ signalled = {}
    /\ ingests = 0
    /\ op = Op("init", NoRoom, NoConn, NoRequest, NoGateway)
    /\ resp = NoResponse
    /\ threw = {}
    /\ inflight = [k \in Slots |-> Idle]

\* ---------------------------------------------------------------- LiveRoom
\* ({ t_ms, ...rest }) => rest
Strip(s) == [t_gps_utc |-> s.t_gps_utc, seq |-> s.seq]

StripAll(buf) == [i \in 1 .. Len(buf) |-> Strip(buf[i])]

\* Mutant: the window is closed at both ends.
pruneBuffer_TwoSided(buf, latestTsMs) ==
    LET cutoff == latestTsMs - WINDOW_MS
    IN  SelectSeq(buf, LAMBDA s : s.t_ms >= cutoff /\ s.t_ms <= latestTsMs)

\* Mutant: the comparison with the cutoff is strict.
pruneBuffer_Strict(buf, latestTsMs) ==
    LET cutoff == latestTsMs - WINDOW_MS
    IN  SelectSeq(buf, LAMBDA s : s.t_ms > cutoff)

\* Mutant: the cutoff is two windows back.
pruneBuffer_DoubleWindow(buf, latestTsMs) ==
    LET cutoff == latestTsMs - 2 * WINDOW_MS
    IN  SelectSeq(buf, LAMBDA s : s.t_ms >= cutoff)

\* Mutant: the window is added to the latest timestamp instead of subtracted.
pruneBuffer_SignFlipped(buf, latestTsMs) ==
    LET cutoff == latestTsMs + WINDOW_MS
    IN  SelectSeq(buf, LAMBDA s : s.t_ms >= cutoff)

\* Mutant: the filter's result is not assigned back.
pruneBuffer_NotAssigned(buf, latestTsMs) == buf

pruneBuffer(buf, latestTsMs) ==
    LET cutoff == latestTsMs - WINDOW_MS
    IN  SelectSeq(buf, LAMBDA s : s.t_ms >= cutoff)

\* Mutant: the loop does not skip a sample whose timestamp is not finite.
RECURSIVE ParseLoop_NoSkip(_, _)
ParseLoop_NoSkip(samples, n) ==
    IF n = 0 THEN [latest |-> NegInfinity, newBuffered |-> <<>>, threw |-> FALSE]
    ELSE LET acc == ParseLoop_NoSkip(samples, n - 1)
             s == samples[n]
             t_ms == DateParse(s.t_gps_utc)
         IN  IF acc.threw \/ s = NullElement THEN [acc EXCEPT !.threw = TRUE]
             ELSE [latest |-> IF NumberIsFinite(t_ms) THEN MathMax(acc.latest, t_ms)
                              ELSE acc.latest,
                   newBuffered |-> Append(acc.newBuffered,
                       [t_gps_utc |-> s.t_gps_utc, seq |-> s.seq, t_ms |-> t_ms.v]),
                   threw |-> FALSE]

\* The parse loop of handleIngest: the state (latest, newBuffered) after the
\* first n samples; threw when s.t_gps_utc was read of a null element, which
\* ends the loop with a TypeError.
RECURSIVE ParseLoop(_, _)
ParseLoop(samples, n) ==
    IF n = 0 THEN [latest |-> NegInfinity, newBuffered |-> <<>>, threw |-> FALSE]
    ELSE LET acc == ParseLoop(samples, n - 1)
             s == samples[n]
             t_ms == DateParse(s.t_gps_utc)
         IN  IF acc.threw \/ s = NullElement THEN [acc EXCEPT !.threw = TRUE]
             ELSE IF ~NumberIsFinite(t_ms) THEN acc
             ELSE [latest |-> MathMax(acc.latest, t_ms),
                   newBuffered |-> Append(acc.newBuffered,
                       [t_gps_utc |-> s.t_gps_utc, seq |-> s.seq, t_ms |-> t_ms.v]),
                   threw |-> FALSE]

\* Mutant: the replay carries the newest buffered sample only.
ReplayMessage_LatestOnly(buf) ==
    [type |-> "replay", window_ms |-> WINDOW_MS,
     samples |-> IF buf = <<>> THEN <<>> ELSE << Strip(buf[Len(buf)]) >>]

ReplayMessage(buf) ==
    [type |-> "replay", window_ms |-> WINDOW_MS, samples |-> StripAll(buf)]

\* Mutant: the new samples are sent as buffered, t_ms included.
SamplesMessage_NotStripped(batch, newBuffered) ==
    [type |-> "samples", session_id |-> batch.session_id,
     device_id |-> batch.device_id, samples |-> newBuffered]

SamplesMessage(batch, newBuffered) ==
    [type |-> "samples", session_id |-> batch.session_id,
     device_id |-> batch.device_id, samples |-> StripAll(newBuffered)]

\* Mutant: no try around send, so the first throw ends the loop (a Set
\* iterates in insertion order, which is the order of the connection ids).
broadcast_NoCatch(r, msg, failing) ==
    /\ outbox' = [c \in Conns |->
                    IF c \in sockets[r] /\ \A d \in failing : c <= d
                    THEN Append(outbox[c], msg) ELSE outbox[c]]
    /\ threw' = failing

\* Mutant: the loop ends after the first socket.
broadcast_StopsAfterFirst(r, msg, failing) ==
    /\ outbox' = [c \in Conns |->
                    IF c \in sockets[r] /\ \A d \in sockets[r] : c <= d
                    THEN Append(outbox[c], msg) ELSE outbox[c]]
    /\ threw' = failing

\* broadcast(obj): one send per registered socket; a send that throws (the
\* sockets in failing) is caught and the loop goes on.
broadcast(r, msg, failing) ==
    /\ outbox' = [c \in Conns |->
                    IF c \in sockets[r] THEN Append(outbox[c], msg) ELSE outbox[c]]
    /\ threw' = failing

IsWebSocketUpgrade(rq) ==
    rq.upgrade # "" /\ ToLowerCase(rq.upgrade) = "websocket"

FreshConn == CHOOSE c \in Conns : home[c] = NoRoom /\ \A d \in Conns : home[d] = NoRoom => c <= d

\* Mutant: the replay is sent only when there is something to replay.
acceptViewerWebSocket_SkipEmpty(r, replayThrows) ==
    /\ \E c \in Conns : home[c] = NoRoom
    /\ LET server == FreshConn
       IN  /\ sockets' = [sockets EXCEPT ![r] = @ \cup {server}]
           /\ home' = [home EXCEPT ![server] = r]
           /\ outbox' = IF buffer[r] = <<>> THEN outbox
                        ELSE [outbox EXCEPT ![server] = Append(@, ReplayMessage(buffer[r]))]
           /\ handlers' = [handlers EXCEPT ![server] = TRUE]
           /\ threw' = {}
           /\ resp' = Switching(server)
    /\ UNCHANGED <<buffer, signalled, ingests>>

\* acceptViewerWebSocket: register the server end, send the replay, install
\* the listeners, answer 101. The replay send is outside any try: when it
\* throws, the exception leaves fetch with the socket already registered and
\* no listener installed.
acceptViewerWebSocket(r, replayThrows) ==
    /\ \E c \in Conns : home[c] = NoRoom
    /\ LET server == FreshConn
       IN  /\ sockets' = [sockets EXCEPT ![r] = @ \cup {server}]
           /\ home' = [home EXCEPT ![server] = r]
           /\ outbox' = [outbox EXCEPT ![server] = Append(@, ReplayMessage(buffer[r]))]
           /\ IF replayThrows
              THEN /\ handlers' = handlers
                   /\ threw' = {server}
                   /\ resp' = Uncaught
              ELSE /\ handlers' = [handlers EXCEPT ![server] = TRUE]
                   /\ threw' = {}
                   /\ resp' = Switching(server)
    /\ UNCHANGED <<buffer, signalled, ingests>>

\* A handler that answers without touching the room.
Answer(response) ==
    /\ resp' = response
    /\ threw' = {}
    /\ UNCHANGED <<buffer, sockets, home, handlers, outbox, signalled, ingests>>

\* The first slot without a request.
FreeSlot(k) ==
    /\ inflight[k].pc = "idle"
    /\ \A j \in Slots : j < k => inflight[j].pc # "idle"

\* handleIngest from request.json() to the append: the Response of the
\* first check that fails (or the exception that leaves the parse loop), or
\* NoResponse when the batch is accepted.
IngestFailure(rq, parsed) ==
    IF rq.body.json = "invalid" THEN Response(400, "Bad JSON")
    ELSE IF rq.body.json = "null" \/ ~rq.body.hasSamples \/ Len(rq.body.samples) = 0
         THEN Response(400, "Missing samples")
    ELSE IF parsed.threw THEN Uncaught
    ELSE IF Len(parsed.newBuffered) = 0 THEN Response(400, "No valid timestamps")
    ELSE NoResponse

\* handleIngest up to await request.json(): a method other than POST is
\* answered 405; a POST suspends in slot k, which is free or holds this
\* request as the Worker forwarded it.
handleIngest(r, rq, g, k) ==
    IF rq.method # "POST" THEN Answer(Response(405, "Method Not Allowed"))
    ELSE /\ inflight[k].pc = "forwarded" \/ FreeSlot(k)
         /\ inflight' = [inflight EXCEPT ![k] =
                            InProgress("decoding", r, rq, g,
                                       Cardinality({c \in Conns : home[c] # NoRoom}))]
         /\ resp' = NoResponse
         /\ threw' = {}
         /\ UNCHANGED <<buffer, sockets, home, handlers, outbox, signalled, ingests>>

\* handleIngest from the point request.json() settles to the return: no
\* await is left, so it runs to completion.
handleIngestDecoded(r, rq) ==
    LET batch == rq.body
        parsed == ParseLoop(batch.samples, Len(batch.samples))
        failure == IngestFailure(rq, parsed)
    IN  IF failure # NoResponse THEN Answer(failure)
        ELSE /\ buffer' = [buffer EXCEPT ![r] =
                             pruneBuffer(@ \o parsed.newBuffered, parsed.latest.v)]
             /\ \E failing \in SUBSET sockets[r] :
                    broadcast(r, SamplesMessage(batch, parsed.newBuffered), failing)
             /\ resp' = JsonOk(Len(parsed.newBuffered))
             /\ ingests' = ingests + 1
             /\ UNCHANGED <<sockets, home, handlers, signalled>>

\* The request makes LiveRoom.fetch suspend (in handleIngest).
Suspends(rq) ==
    /\ ~IsWebSocketUpgrade(rq)
    /\ rq.pathname = IngestPath
    /\ rq.method = "POST"

\* LiveRoom.fetch up to its return or to the await of handleIngest.
RoomFetch(r, rq, g, k) ==
    \/ /\ IsWebSocketUpgrade(rq)
       /\ \E replayThrows \in BOOLEAN : acceptViewerWebSocket(r, replayThrows)
    \/ /\ ~IsWebSocketUpgrade(rq)
       /\ rq.pathname = IngestPath
       /\ handleIngest(r, rq, g, k)
    \/ /\ ~IsWebSocketUpgrade(rq)
       /\ rq.pathname # IngestPath
       /\ Answer(Response(404, "Not Found"))

\* The "close" listener.
OnClose(c) ==
    /\ home[c] # NoRoom
    /\ sockets' = IF handlers[c]
                  THEN [sockets EXCEPT ![home[c]] = @ \ {c}]
                  ELSE sockets
    /\ signalled' = signalled \cup {c}
    /\ op' = Op("close", home[c], c, NoRequest, NoGateway)
    /\ resp' = NoResponse
    /\ threw' = {}
    /\ UNCHANGED <<buffer, home, handlers, outbox, ingests, inflight>>

\* The "error" listener: delete, then a close whose throw is swallowed.
OnError(c, closeThrows) ==
    /\ home[c] # NoRoom
    /\ sockets' = IF handlers[c]
                  THEN [sockets EXCEPT ![home[c]] = @ \ {c}]
                  ELSE sockets
    /\ signalled' = signalled \cup {c}
    /\ op' = Op("error", home[c], c, NoRequest, NoGateway)
    /\ resp' = NoResponse
    /\ threw' = IF handlers[c] /\ closeThrows THEN {c} ELSE {}
    /\ UNCHANGED <<buffer, home, handlers, outbox, ingests, inflight>>

\* Mutant: the message listener answers the viewer with a fresh replay.
OnMessage_Echo(c) ==
    /\ home[c] # NoRoom
    /\ op' = Op("message", home[c], c, NoRequest, NoGateway)
    /\ outbox' = [outbox EXCEPT ![c] = Append(@, ReplayMessage(buffer[home[c]]))]
    /\ resp' = NoResponse
    /\ threw' = {}
    /\ UNCHANGED <<buffer, sockets, home, handlers, signalled, ingests, inflight>>

\* The "message" listener: () => {}.
OnMessage(c) ==
    /\ home[c] # NoRoom
    /\ op' = Op("message", home[c], c, NoRequest, NoGateway)
    /\ resp' = NoResponse
    /\ threw' = {}
    /\ UNCHANGED <<buffer, sockets, home, handlers, outbox, signalled, ingests, inflight>>

\* A call of a room's fetch made directly: it returns, or suspends in slot k.
DirectFetch(r, rq, k) ==
    /\ RoomFetch(r, rq, NoGateway, k)
    /\ IF Suspends(rq) THEN FreeSlot(k) ELSE UNCHANGED inflight
    /\ op' = Op(IF Suspends(rq) THEN "begin" ELSE "fetch", r, NoConn, rq, NoGateway)

\* Mutant: the handler suspends again between the append and the prune and
\* never gets to prune.
ResumeIngest_AppendOnly(k, limit, keep) ==
    LET r == inflight[k].room
        rq == inflight[k].rq
        parsed == ParseLoop(rq.body.samples, Len(rq.body.samples))
    IN  /\ inflight[k].pc = "decoding"
        /\ IF IngestFailure(rq, parsed) # NoResponse THEN handleIngestDecoded(r, rq)
           ELSE /\ buffer' = [buffer EXCEPT ![r] = @ \o parsed.newBuffered]
                /\ \E failing \in SUBSET sockets[r] :
                       broadcast(r, SamplesMessage(rq.body, parsed.newBuffered), failing)
                /\ resp' = JsonOk(Len(parsed.newBuffered))
                /\ ingests' = ingests + 1
                /\ UNCHANGED <<sockets, home, handlers, signalled>>
        /\ ingests' <= limit
        /\ inflight' = [inflight EXCEPT ![k] =
                           IF keep
                           THEN [@ EXCEPT !.pc = "done",
                                          !.order = 1 + Cardinality({j \in Slots :
                                                        inflight[j].pc = "done"})]
                           ELSE Idle]
        /\ op' = Op(IF inflight[k].gw = NoGateway THEN "fetch" ELSE "gateway",
                    r, NoConn, rq, inflight[k].gw)

\* request.json() of the request in slot k settles and handleIngest runs to
\* its return. keep says whether the request stays on record in its slot.
ResumeIngest(k, limit, keep) ==
    /\ inflight[k].pc = "decoding"
    /\ handleIngestDecoded(inflight[k].room, inflight[k].rq)
    /\ ingests' <= limit
    /\ inflight' = [inflight EXCEPT ![k] =
                       IF keep
                       THEN [@ EXCEPT !.pc = "done",
                                      !.order = 1 + Cardinality({j \in Slots :
                                                    inflight[j].pc = "done"})]
                       ELSE Idle]
    /\ op' = Op(IF inflight[k].gw = NoGateway THEN "fetch" ELSE "gateway",
                inflight[k].room, NoConn, inflight[k].rq, inflight[k].gw)

Next ==
    \/ \E rq \in RoomRequests, k \in 1 .. MaxPending : DirectFetch("s1", rq, k)
    \/ \E k \in Slots : ResumeIngest(k, MaxIngests, FALSE)
    \/ \E c \in Conns : OnClose(c)
    \/ \E c \in Conns, closeThrows \in BOOLEAN : OnError(c, closeThrows)
    \/ \E c \in Conns : OnMessage(c)

\* One room driven directly through its fetch, with its sockets' events and
\* up to MaxPending ingests suspended at their decoding.
Spec == Init /\ [][Next]_vars

\* ----------------------------------------------------------- Scenario A
ScenarioIngests == 3

ScenarioRequests ==
    {Request("websocket", RootPath, "GET", NoBody)}
        \cup {Request("", IngestPath, "POST", BatchBody("s1", b)) :
                b \in {ScenarioA1, ScenarioA2, ScenarioA3, <<sX, sEdge>>, <<sX>>}}

ScenarioNext ==
    \/ \E rq \in ScenarioRequests, k \in 1 .. MaxPending : DirectFetch("s1", rq, k)
    \/ \E k \in Slots : ResumeIngest(k, ScenarioIngests, FALSE)
    \/ \E c \in Conns : OnClose(c)

\* The same room fed the batches of the specification's Scenario A, in any
\* order and any number of times.
ScenarioSpec == Init /\ [][ScenarioNext]_vars

\* ------------------------------------------------- requests kept on record
ConcRequests ==
    {Request("websocket", RootPath, "GET", NoBody)}
        \cup {Request("", IngestPath, "POST", b) :
                b \in {NoBody, BatchBody("s1", <<sA>>), BatchBody("s1", <<sB>>)}}

ConcNext ==
    \/ \E rq \in ConcRequests, k \in Slots : DirectFetch("s1", rq, k)
    \/ \E k \in Slots : ResumeIngest(k, MaxInflight, TRUE)
    \/ \E c \in Conns : OnClose(c)

\* One room with up to MaxInflight ingest requests over a run, each kept on
\* record with the order in which it returned; subscribes and close events
\* run while they are suspended.
ConcSpec == Init /\ [][ConcNext]_vars

\* ------------------------------------------------------- Worker (gateway)
\* Mutant: a request without the header passes.
bearerOk_MissingPasses(auth, token) == auth = "" \/ auth = "Bearer " \o token

bearerOk(auth, token) == auth = "Bearer " \o token

\* url.pathname.startsWith("/" + first + "/")
StartsWith(pathname, first) == Len(pathname) >= 2 /\ pathname[1] = first

\* url.pathname.split("/")[2] || "demo-session"
SessionId(pathname) == IF pathname[2] = "" THEN "demo-session" ELSE pathname[2]

\* The Worker calls stub.fetch(rq) on room r: the request waits in slot k for
\* the room to run.
Forward(r, rq, g, k) ==
    /\ FreeSlot(k)
    /\ inflight' = [inflight EXCEPT ![k] = InProgress("forwarded", r, rq, g, 0)]
    /\ op' = Op("worker", r, NoConn, rq, g)
    /\ resp' = NoResponse
    /\ threw' = {}
    /\ UNCHANGED <<buffer, sockets, home, handlers, outbox, signalled, ingests>>

\* The Worker's fetch up to its return or its first await: route by path
\* prefix to the room named by the path, refuse a /telemetry/ request
\* without the credential, or query D1 for the page.
GatewayFetch(g, k) ==
    IF StartsWith(g.pathname, "__do_test")
    THEN Forward(SessionId(g.pathname), Request("", RootPath, "GET", NoBody), g, k)
    ELSE IF StartsWith(g.pathname, "live")
    THEN Forward(SessionId(g.pathname),
                 Request(g.upgrade, g.pathname, g.method, g.body), g, k)
    ELSE IF StartsWith(g.pathname, "telemetry")
    THEN IF ~bearerOk(g.authorization, TELEMETRY_BEARER_TOKEN)
         THEN /\ Answer(Response(401, "Unauthorized"))
              /\ op' = Op("gateway", NoRoom, NoConn, NoRequest, g)
              /\ UNCHANGED inflight
         ELSE Forward(SessionId(g.pathname),
                      Request("", IngestPath, "POST", g.body), g, k)
    ELSE /\ FreeSlot(k)
         /\ inflight' = [inflight EXCEPT ![k] =
                            InProgress("querying", NoRoom, NoRequest, g, 0)]
         /\ op' = Op("worker", NoRoom, NoConn, NoRequest, g)
         /\ resp' = NoResponse
         /\ threw' = {}
         /\ UNCHANGED <<buffer, sockets, home, handlers, outbox, signalled, ingests>>

\* The room runs LiveRoom.fetch on the request forwarded into slot k, to its
\* return (which is the Worker's) or to the await of handleIngest.
StubFetch(k) ==
    LET r == inflight[k].room
        rq == inflight[k].rq
        g == inflight[k].gw
    IN  /\ inflight[k].pc = "forwarded"
        /\ RoomFetch(r, rq, g, k)
        /\ IF Suspends(rq) THEN TRUE ELSE inflight' = [inflight EXCEPT ![k] = Idle]
        /\ op' = Op(IF Suspends(rq) THEN "begin" ELSE "gateway", r, NoConn, rq, g)

\* stmt.all() settles: the Worker answers the page, or the rejection leaves
\* its fetch.
RenderPage(k, rejects) ==
    /\ inflight[k].pc = "querying"
    /\ Answer(IF rejects THEN Uncaught ELSE Response(200, "text/html"))
    /\ inflight' = [inflight EXCEPT ![k] = Idle]
    /\ op' = Op("gateway", NoRoom, NoConn, NoRequest, inflight[k].gw)

GatewayPending == 2  \* Worker requests in progress at once
GatewayIngests == 1  \* successful ingests over a run through the Worker

GatewayBodies ==
    {BatchBody("s1", <<sA>>), BatchBody("s1", <<sB>>), BatchBody("s2", <<sX, sA>>)}

GatewayRequests ==
    {GatewayRequest(<<"telemetry", "s1">>, "Bearer secret", "", "POST", b) :
        b \in GatewayBodies}
      \cup {GatewayRequest(<<"telemetry", "s1">>, a, "", "POST", BatchBody("s1", <<sB>>)) :
        a \in {"", "Bearer wrong", "bearer secret", "secret"}}
      \cup {GatewayRequest(<<"telemetry", "">>, "Bearer secret", "", "POST",
                           BatchBody("s1", <<sA>>)),
            GatewayRequest(<<"telemetry", "s1">>, "Bearer secret", "", "GET", NoBody),
            GatewayRequest(<<"telemetry", "s1">>, "Bearer secret", "", "PUT",
                           BatchBody("s1", <<sA>>)),
            GatewayRequest(<<"live", "s1">>, "", "websocket", "GET", NoBody),
            GatewayRequest(<<"live", "s1">>, "", "", "POST", BatchBody("s1", <<sA>>)),
            GatewayRequest(<<"__do_test", "s1">>, "", "", "GET", NoBody),
            GatewayRequest(<<"">>, "", "", "GET", NoBody)}

GatewayNext ==
    \/ \E g \in GatewayRequests, k \in 1 .. GatewayPending : GatewayFetch(g, k)
    \/ \E k \in Slots : StubFetch(k)
    \/ \E k \in Slots : ResumeIngest(k, GatewayIngests, FALSE)
    \/ \E k \in Slots, rejects \in BOOLEAN : RenderPage(k, rejects)
    \/ \E c \in Conns : OnClose(c)

\* The rooms reached only through the Worker's fetch, with up to GatewayPending
\* of its requests in progress at once.
GatewaySpec == Init /\ [][GatewayNext]_vars

\* ================================================================== claims
\* What the claims say of a request, stated from the request alone.
Parsable(s) == NumberIsFinite(DateParse(s.t_gps_utc))

ValidSamples(samples) == SelectSeq(samples, Parsable)

ParsedTimes(samples) ==
    {DateParse(samples[i].t_gps_utc).v : i \in {j \in DOMAIN samples : Parsable(samples[j])}}

LatestOfBatch(samples) ==
    CHOOSE m \in ParsedTimes(samples) : \A t \in ParsedTimes(samples) : t <= m

\* The operation o was a call of handleIngest.
IsIngestCall(o) ==
    /\ o.kind \in {"fetch", "gateway"}
    /\ o.room # NoRoom
    /\ ~(o.rq.upgrade # "" /\ ToLowerCase(o.rq.upgrade) = "websocket")
    /\ o.rq.pathname = <<"ingest">>

\* The operation o was a call of acceptViewerWebSocket.
IsSubscribeCall(o) ==
    /\ o.kind \in {"fetch", "gateway"}
    /\ o.room # NoRoom
    /\ o.rq.upgrade # "" /\ ToLowerCase(o.rq.upgrade) = "websocket"

\* Wrong method, a body that does not decode to a batch of samples, missing
\* or empty samples, or no sample with a finite parsed timestamp.
FailsValidation(rq) ==
    \/ rq.method # "POST"
    \/ rq.body.json # "object"
    \/ ~rq.body.hasSamples
    \/ rq.body.samples = <<>>
    \/ \E i \in DOMAIN rq.body.samples : rq.body.samples[i] = NullElement
    \/ \A i \in DOMAIN rq.body.samples : ~Parsable(rq.body.samples[i])

IngestSucceeded(o, response) == IsIngestCall(o) /\ response.status = 200 /\ response.ok

WireSample(s) == [t_gps_utc |-> s.t_gps_utc, seq |-> s.seq]

LiveUpdateOf(batch) ==
    [type |-> "samples", session_id |-> batch.session_id, device_id |-> batch.device_id,
     samples |-> ValidSamples(batch.samples)]

Last(q) == q[Len(q)]

\* C1: right after a successful ingest every sample in the room's buffer has
\* t_ms >= latest - 30000, latest being the largest finite parsed timestamp
\* of the batch just ingested.
C1_BufferWithinBatchWindow ==
    IngestSucceeded(op, resp) =>
        \A i \in DOMAIN buffer[op.room] :
            buffer[op.room][i].t_ms >= LatestOfBatch(op.rq.body.samples) - 30000

\* C1 witness: a second successful ingest after which a single sample is
\* left, so the prune removed at least one.
C1_Witness ==
    /\ IngestSucceeded(op, resp)
    /\ ingests = 2
    /\ Len(buffer[op.room]) = 1

\* C2: an ingest that fails validation (wrong method, undecodable body,
\* missing or empty samples, no finite timestamp) is answered 4xx, leaves the
\* buffer and the socket set as they were and sends nothing to any socket.
C2_FailedIngestChangesNothing ==
    [][(IsIngestCall(op') /\ FailsValidation(op'.rq))
        => /\ resp'.status \in 400 .. 499
           /\ buffer' = buffer
           /\ sockets' = sockets
           /\ outbox' = outbox]_vars

\* C2 without the null elements: a failed ingest leaves the room as it was,
\* and its answer is 4xx unless a null element made the parse loop throw.
C2_FailedIngestFrame ==
    [][(IsIngestCall(op') /\ FailsValidation(op'.rq))
        => /\ resp'.status \in 400 .. 499 \/ resp' = Uncaught
           /\ resp' = Uncaught =>
                 \E i \in DOMAIN op'.rq.body.samples : op'.rq.body.samples[i] = NullElement
           /\ buffer' = buffer
           /\ sockets' = sockets
           /\ outbox' = outbox]_vars

\* C3: a successful ingest calls send exactly once on every socket registered
\* at that moment, with the live-update made of the batch's parsable samples
\* in batch order without t_ms and the batch's tags; no other socket is sent
\* anything.
C3_LiveUpdateIsTheNewSamples ==
    [][IngestSucceeded(op', resp')
        => \A c \in Conns :
             outbox'[c] = IF c \in sockets[op'.room]
                          THEN Append(outbox[c], LiveUpdateOf(op'.rq.body))
                          ELSE outbox[c]]_vars

\* C3 witness: two viewers were sent the live-update of a batch with one
\* unparsable sample, after an earlier batch.
C3_Witness ==
    /\ IngestSucceeded(op, resp)
    /\ op.rq.body.samples = <<sX, sB>>
    /\ ingests = 2
    /\ Cardinality(sockets[op.room]) = 2
    /\ \A c \in sockets[op.room] : Last(outbox[c]).samples = <<sB>>

C4_ReplayOf(buf) ==
    [type |-> "replay", window_ms |-> 30000,
     samples |-> [i \in 1 .. Len(buf) |-> WireSample(buf[i])]]

C4_ReplayFirstAndOnce ==
    \A c \in Conns :
        IF home[c] = NoRoom THEN outbox[c] = <<>>
        ELSE /\ Len(outbox[c]) >= 1
             /\ outbox[c][1].type = "replay"
             /\ \A i \in 2 .. Len(outbox[c]) : outbox[c][i].type # "replay"

C4_SubscribeStep ==
    /\ IsSubscribeCall(op') =>
          \E c \in Conns : home[c] = NoRoom /\ home'[c] = op'.room /\ c \in sockets'[op'.room]
    /\ \A c \in Conns :
          (home[c] = NoRoom /\ home'[c] # NoRoom) =>
              outbox'[c] = << C4_ReplayOf(buffer[home'[c]]) >>

\* C4: a subscribe sends the new socket exactly one replay, before anything
\* else, with window size 30000 and the buffer as it is at that moment, in
\* buffer order and without t_ms, also when the buffer is empty.
C4_ReplayOnSubscribe == []C4_ReplayFirstAndOnce /\ [][C4_SubscribeStep]_vars

\* C4 witness: one viewer got an empty replay, another a replay with samples
\* followed by a live-update.
C4_Witness ==
    \E c, d \in Conns :
        /\ home[c] # NoRoom /\ home[d] # NoRoom
        /\ outbox[c][1].samples = <<>>
        /\ outbox[d][1].samples # <<>>
        /\ Len(outbox[d]) >= 2

\* C5: when a send throws during a broadcast, every registered socket is
\* still sent the message, the ingest answers success with the batch's
\* latest sample buffered, and the socket set is unchanged.
C5_SendFailureIsContained ==
    [][(IsIngestCall(op') /\ ~FailsValidation(op'.rq) /\ threw' # {})
        => /\ resp'.status = 200 /\ resp'.ok
           /\ sockets' = sockets
           /\ threw' \subseteq sockets[op'.room]
           /\ \A c \in sockets[op'.room] :
                outbox'[c] = Append(outbox[c], LiveUpdateOf(op'.rq.body))
           /\ \E i \in DOMAIN buffer'[op'.room] :
                buffer'[op'.room][i].t_ms = LatestOfBatch(op'.rq.body.samples)]_vars

\* C5 witness: of two registered sockets the first threw, and both were sent
\* the live-update.
C5_Witness ==
    /\ IngestSucceeded(op, resp)
    /\ sockets[op.room] = {1, 2}
    /\ threw = {1}
    /\ Last(outbox[2]).type = "samples"

Newer(buf, t) == SelectSeq(buf, LAMBDA s : s.t_ms > t)

\* C6 as claimed, read as what a delayed batch does: a successful ingest
\* whose latest timestamp is smaller than a resident one evicts a resident
\* sample newer than that latest.
C6_DelayedBatchEvictsNewer ==
    [][(IngestSucceeded(op', resp')
          /\ Newer(buffer[op'.room], LatestOfBatch(op'.rq.body.samples)) # <<>>)
        => Newer(buffer'[op'.room], LatestOfBatch(op'.rq.body.samples))
              # Newer(buffer[op'.room], LatestOfBatch(op'.rq.body.samples))]_vars

\* C6, amended: no successful ingest evicts a resident sample newer than the
\* batch's latest timestamp: the samples newer than it are the same, in the
\* same order, before and after the ingest.
C6_NewerSamplesSurvive ==
    [][IngestSucceeded(op', resp')
        => Newer(buffer'[op'.room], LatestOfBatch(op'.rq.body.samples))
              = Newer(buffer[op'.room], LatestOfBatch(op'.rq.body.samples))]_vars

\* C6 witness: a delayed batch was ingested, and a sample newer than its
\* latest timestamp is in the buffer.
C6_Witness ==
    /\ IngestSucceeded(op, resp)
    /\ \E i \in DOMAIN buffer[op.room] :
          buffer[op.room][i].t_ms > LatestOfBatch(op.rq.body.samples)

Buffered(s) ==
    [t_gps_utc |-> s.t_gps_utc, seq |-> s.seq, t_ms |-> DateParse(s.t_gps_utc).v]

BufferedAll(samples) == [i \in 1 .. Len(samples) |-> Buffered(samples[i])]

Times(buf) == [i \in 1 .. Len(buf) |-> buf[i].t_ms]

C7_IngestStep ==
    LET r == op'.room
        samples == op'.rq.body.samples
    IN  IngestSucceeded(op', resp') =>
          /\ buffer'[r] = SelectSeq(buffer[r] \o BufferedAll(ValidSamples(samples)),
                                    LAMBDA s : s.t_ms >= LatestOfBatch(samples) - 30000)
          /\ (buffer[r] = <<>> /\ samples = ScenarioA1)
                => Times(buffer'[r]) = <<1000, 2000, 3000>>
          /\ (Times(buffer[r]) = <<1000, 2000, 3000>> /\ samples = ScenarioA2)
                => Times(buffer'[r]) = <<1000, 2000, 3000, 3500>>
          /\ (Times(buffer[r]) = <<1000, 2000, 3000, 3500>> /\ samples = ScenarioA3)
                => Times(buffer'[r]) = <<40000>>

\* C7: a successful ingest sets the buffer to the previous buffer followed by
\* the batch's valid samples in batch order, restricted to t_ms >= latest -
\* 30000, order kept; from an empty buffer [1000, 2000, 3000], then [3500],
\* then [40000] give [1000,2000,3000], [1000,2000,3000,3500], [40000].
C7_AppendThenPrune == [][C7_IngestStep]_vars

\* C7 witness: a viewer present from the start saw Scenario A's three
\* batches in order and the buffer holds the sample at 40000 alone.
C7_Witness ==
    /\ Times(buffer["s1"]) = <<40000>>
    /\ \E c \in Conns :
          outbox[c] = << C4_ReplayOf(<<>>),
                         LiveUpdateOf(BatchBody("s1", ScenarioA1)),
                         LiveUpdateOf(BatchBody("s1", ScenarioA2)),
                         LiveUpdateOf(BatchBody("s1", ScenarioA3)) >>

\* C8: a batch with at least one parsable sample is ingested, its response's
\* received is the number of its parsable samples, and no unparsable sample
\* is in the buffer or in the live-update.
C8_ReceivedCountsParsable ==
    (IsIngestCall(op) /\ ~FailsValidation(op.rq)) =>
        /\ resp.status = 200 /\ resp.ok
        /\ resp.received = Cardinality({i \in DOMAIN op.rq.body.samples :
                                           Parsable(op.rq.body.samples[i])})
        /\ \A i \in DOMAIN buffer[op.room] : Parsable(buffer[op.room][i])
        /\ \A c \in sockets[op.room] :
              /\ Last(outbox[c]).type = "samples"
              /\ \A i \in DOMAIN Last(outbox[c]).samples :
                    Parsable(Last(outbox[c]).samples[i])

\* C8 witness: a batch of one unparsable and one parsable sample was
\* ingested with a viewer registered.
C8_Witness ==
    /\ IsIngestCall(op)
    /\ op.rq.body.samples = <<sX, sA>>
    /\ resp.received = 1
    /\ sockets[op.room] # {}

\* C9 as claimed: a connection whose close or error signal has fired is not
\* in its room's socket set.
C9_SignalledIsRemoved ==
    \A c \in signalled : c \notin sockets[home[c]]

\* C9 for the connections whose listeners were installed: the first close
\* or error removes the connection and nothing else, later signals change
\* nothing, it is sent nothing afterwards, and a throwing close is swallowed.
C9_ListenerStep ==
    /\ \A c \in signalled : handlers[c] => outbox'[c] = outbox[c]
    /\ op'.kind \in {"close", "error"} =>
          /\ handlers[op'.conn] =>
                sockets' = [sockets EXCEPT ![home[op'.conn]] = @ \ {op'.conn}]
          /\ (op'.conn \in signalled /\ handlers[op'.conn]) => sockets' = sockets
          /\ UNCHANGED <<buffer, outbox, home, handlers>>

C9_WithListeners ==
    /\ [](\A c \in signalled : handlers[c] => c \notin sockets[home[c]])
    /\ [][C9_ListenerStep]_vars

Unauthorized(g) ==
    /\ Len(g.pathname) >= 2 /\ g.pathname[1] = "telemetry"
    /\ g.authorization # "Bearer secret"

GainsLiveUpdate(c) ==
    /\ Len(outbox'[c]) > Len(outbox[c])
    /\ Last(outbox'[c]).type = "samples"

C10_GatewayStep ==
    /\ (op'.kind = "gateway" /\ Unauthorized(op'.gw)) =>
          /\ resp'.status = 401
          /\ op'.room = NoRoom
          /\ UNCHANGED <<buffer, sockets, home, handlers, outbox>>
    /\ (buffer' # buffer \/ \E c \in Conns : GainsLiveUpdate(c)) =>
          /\ op'.kind = "gateway"
          /\ op'.gw.pathname[1] = "telemetry"
          /\ op'.gw.authorization = "Bearer secret"
    /\ IsSubscribeCall(op') => buffer' = buffer

\* C10: a request to /telemetry/<id> whose Authorization header is not
\* exactly the configured bearer credential is answered 401 without any room
\* being called; a buffer changes or a live-update is sent only by a request
\* that carries the credential, and a subscribe changes no buffer.
C10_OnlyAuthorizedIngest == [][C10_GatewayStep]_vars

\* C10 witness: a request with a wrong credential was refused while the room
\* it names held samples and had a viewer.
C10_Witness ==
    /\ op.kind = "gateway"
    /\ op.gw.pathname = <<"telemetry", "s1">>
    /\ op.gw.authorization = "Bearer wrong"
    /\ resp.status = 401
    /\ buffer["s1"] # <<>>
    /\ sockets["s1"] # {}

\* An ingest request whose method is not POST, made of the room's fetch
\* directly (o.kind = "fetch") or of the Worker at /telemetry/<id> with the
\* credential (o.kind = "gateway").
NonPostIngest(o) ==
    \/ /\ o.kind = "fetch"
       /\ IsIngestCall(o)
       /\ o.rq.method # "POST"
    \/ /\ o.kind = "gateway"
       /\ Len(o.gw.pathname) >= 2 /\ o.gw.pathname[1] = "telemetry"
       /\ o.gw.authorization = "Bearer secret"
       /\ o.gw.method # "POST"

\* C11 as claimed: an ingest request whose method is not POST, made of the
\* room directly or through the gateway's authenticated route, is answered
\* 405 and changes neither the buffer nor the socket set nor sends anything.
C11_NonPostIs405 ==
    [][NonPostIngest(op')
        => /\ resp'.status = 405
           /\ buffer' = buffer
           /\ sockets' = sockets
           /\ outbox' = outbox]_vars

\* C11 for the room's own handler: a request that reaches handleIngest with
\* a method other than POST is answered 405 and changes nothing.
C11_DirectNonPostIs405 ==
    [][(IsIngestCall(op') /\ op'.rq.method # "POST")
        => /\ resp'.status = 405
           /\ buffer' = buffer
           /\ sockets' = sockets
           /\ outbox' = outbox]_vars

\* The live-updates among the messages q, in the order they were sent.
LiveUpdates(q) == SelectSeq(q, LAMBDA m : m.type = "samples")

IsSuffix(a, b) ==
    /\ Len(a) <= Len(b)
    /\ a = SubSeq(b, Len(b) - Len(a) + 1, Len(b))

\* Two sockets registered with the same room were sent the same live-updates
\* in the same order, from the later subscribe on.
C12_SameOrder ==
    \A c, d \in Conns :
        (home[c] # NoRoom /\ home[d] = home[c]
            /\ c \in sockets[home[c]] /\ d \in sockets[home[c]])
        => \/ IsSuffix(LiveUpdates(outbox[c]), LiveUpdates(outbox[d]))
           \/ IsSuffix(LiveUpdates(outbox[d]), LiveUpdates(outbox[c]))

C12_BroadcastStep ==
    /\ IngestSucceeded(op', resp') =>
          \A c, d \in sockets[op'.room] :
              /\ outbox'[c] = Append(outbox[c], Last(outbox'[c]))
              /\ Last(outbox'[c]) = Last(outbox'[d])
              /\ Last(outbox'[c]) = LiveUpdateOf(op'.rq.body)
    /\ \A c \in Conns :
          LiveUpdates(outbox'[c]) # LiveUpdates(outbox[c]) =>
              /\ IngestSucceeded(op', resp')
              /\ buffer' # buffer
              /\ c \in sockets[op'.room]

\* C12: one ingest sends every registered socket the same live-update, as
\* the last message of each, in the step that changes the buffer; so sockets
\* that stay registered are sent the live-updates in one and the same order,
\* the order of the ingests.
C12_IdenticalInOrder == []C12_SameOrder /\ [][C12_BroadcastStep]_vars

\* C12 witness: two registered viewers were each sent the same two different
\* live-updates.
C12_Witness ==
    /\ sockets["s1"] = {1, 2}
    /\ Len(LiveUpdates(outbox[1])) = 2
    /\ LiveUpdates(outbox[1]) = LiveUpdates(outbox[2])
    /\ LiveUpdates(outbox[1])[1] # LiveUpdates(outbox[1])[2]

C13_Step ==
    /\ \A r \in RoomNames :
          buffer'[r] # buffer[r] => (IngestSucceeded(op', resp') /\ op'.room = r)
    /\ (IsSubscribeCall(op') \/ op'.kind \in {"close", "error", "message"})
          => buffer' = buffer
    /\ (IsIngestCall(op') /\ ~(resp'.status = 200 /\ resp'.ok)) => buffer' = buffer
    /\ op'.kind = "message" => UNCHANGED <<buffer, sockets, outbox>>

\* C13: a room's buffer changes only in a successful ingest of that room:
\* subscribe, close, error, a viewer's message and a failed ingest leave every
\* buffer as it was (no step expires samples), and a viewer's message changes
\* neither the buffer nor the socket set and sends nothing to anyone.
C13_BufferChangesOnlyOnIngest == [][C13_Step]_vars

\* C13 witness: a registered viewer sent a message while the buffer held
\* samples and a second viewer was registered.
C13_Witness ==
    /\ op.kind = "message"
    /\ buffer[op.room] # <<>>
    /\ op.conn \in sockets[op.room]
    /\ Cardinality(sockets[op.room]) = 2

Done == {k \in Slots : inflight[k].pc = "done"}

\* The buffer after the first n requests that returned, had they run one at
\* a time in the order they returned.
RECURSIVE SerialRun(_)
SerialRun(n) ==
    IF n = 0 THEN <<>>
    ELSE LET k == CHOOSE j \in Done : inflight[j].order = n
             samples == inflight[k].rq.body.samples
             before == SerialRun(n - 1)
         IN  IF FailsValidation(inflight[k].rq) THEN before
             ELSE SelectSeq(before \o BufferedAll(ValidSamples(samples)),
                            LAMBDA s : s.t_ms >= LatestOfBatch(samples) - 30000)

C14_Serialized == buffer["s1"] = SerialRun(Cardinality(Done))

C14_Step ==
    /\ op'.kind = "begin" => UNCHANGED <<buffer, sockets, outbox, home, handlers>>
    /\ IngestSucceeded(op', resp') =>
          LET r == op'.room
              samples == op'.rq.body.samples
          IN  /\ buffer'[r] = SelectSeq(buffer[r] \o BufferedAll(ValidSamples(samples)),
                                        LAMBDA s : s.t_ms >= LatestOfBatch(samples) - 30000)
              /\ \A c \in sockets[r] :
                    outbox'[c] = Append(outbox[c], LiveUpdateOf(op'.rq.body))
    /\ buffer' # buffer => IngestSucceeded(op', resp')
    /\ \A c \in Conns :
          (home[c] = NoRoom /\ home'[c] # NoRoom) =>
              /\ buffer' = buffer
              /\ outbox'[c] = << C4_ReplayOf(SerialRun(Cardinality(Done))) >>

\* C14: with ingest requests suspended at their decoding and subscribes in
\* between, the buffer is always what the requests that returned would have
\* left had they run one at a time in the order they returned; an ingest
\* appends, prunes and broadcasts in one step, a suspended request changes
\* nothing, and a subscribe replays that serial buffer.
C14_IngestsAreSerialized == []C14_Serialized /\ [][C14_Step]_vars

\* C14 witness: the request that suspended first is still decoding, a later
\* one returned before it after evicting an earlier batch's sample, and a
\* viewer that subscribed while both were suspended got the empty replay and
\* then the later request's live-update.
C14_Witness ==
    /\ inflight[1].pc = "decoding"
    /\ inflight[2].pc = "done" /\ inflight[3].pc = "done"
    /\ ingests = 2
    /\ Times(buffer["s1"]) = <<40000>>
    /\ \E c \in Conns :
          /\ c \in sockets["s1"]
          /\ c > inflight[1].born /\ c > inflight[2].born /\ c > inflight[3].born
          /\ Len(outbox[c]) = 3
          /\ outbox[c][1].samples = <<>>

\* C15 as claimed: a replay send that throws is caught where it is sent, so
\* every subscribe is answered 101 and every socket in a room's set has its
\* close and error listeners installed.
C15_ReplayFailureIsCaught ==
    /\ IsSubscribeCall(op) => resp.status = 101
    /\ \A r \in RoomNames : \A c \in sockets[r] : handlers[c]

\* C16 as claimed: in every state every buffered sample's t_ms is within
\* 30000 of the largest t_ms in the buffer.
C16_WithinWindowOfLargest ==
    \A r \in RoomNames : \A i, j \in DOMAIN buffer[r] :
        buffer[r][i].t_ms >= buffer[r][j].t_ms - 30000

InTimeOrder(buf) == \A i, j \in DOMAIN buf : i <= j => buf[i].t_ms <= buf[j].t_ms

C16_State ==
    \A r \in RoomNames :
        /\ \A i \in DOMAIN buffer[r] : buffer[r][i].t_ms >= Last(buffer[r]).t_ms - 30000
        /\ InTimeOrder(buffer[r]) =>
              \A i, j \in DOMAIN buffer[r] : buffer[r][i].t_ms >= buffer[r][j].t_ms - 30000

C16_Step ==
    /\ IngestSucceeded(op', resp') =>
          /\ \A i \in DOMAIN buffer'[op'.room] :
                buffer'[op'.room][i].t_ms >= LatestOfBatch(op'.rq.body.samples) - 30000
          /\ Last(buffer'[op'.room]).t_ms <= LatestOfBatch(op'.rq.body.samples)
    /\ ~IngestSucceeded(op', resp') => buffer' = buffer

\* C16, amended: the window is measured from the latest timestamp of the
\* most recent successful batch, not from the largest t_ms present: every
\* ingest leaves only samples with t_ms >= that latest - 30000 and nothing
\* else changes the buffer, so every buffered sample is within 30000 below
\* the last appended one, and within 30000 of the largest whenever the
\* buffer is in timestamp order.
C16_WithinWindowOfLastBatch == []C16_State /\ [][C16_Step]_vars

\* C16 witness: after a delayed batch the buffer holds two samples 39000 ms
\* apart.
C16_Witness ==
    /\ IngestSucceeded(op, resp)
    /\ Times(buffer[op.room]) = <<40000, 1000>>

\* The samples of the messages q, in the order they were sent.
RECURSIVE Delivered(_)
Delivered(q) ==
    IF q = <<>> THEN <<>>
    ELSE Delivered(SubSeq(q, 1, Len(q) - 1)) \o Last(q).samples

RECURSIVE IsSubseq(_, _)
IsSubseq(a, b) ==
    IF a = <<>> THEN TRUE
    ELSE IF b = <<>> THEN FALSE
    ELSE IF Head(a) = Head(b) THEN IsSubseq(Tail(a), Tail(b))
    ELSE IsSubseq(a, Tail(b))

WireAll(buf) == [i \in 1 .. Len(buf) |-> WireSample(buf[i])]

C17_State ==
    \A c \in Conns :
        (home[c] # NoRoom /\ c \in sockets[home[c]]) =>
            IsSubseq(WireAll(buffer[home[c]]), Delivered(outbox[c]))

C17_Step ==
    /\ IngestSucceeded(op', resp') =>
          \A c \in Conns :
              IF c \in sockets[op'.room]
              THEN /\ Len(outbox'[c]) = Len(outbox[c]) + 1
                   /\ Last(outbox'[c]).type = "samples"
                   /\ Delivered(outbox'[c])
                         = Delivered(outbox[c]) \o ValidSamples(op'.rq.body.samples)
              ELSE outbox'[c] = outbox[c]
    /\ \A c \in Conns :
          (home[c] = NoRoom /\ home'[c] # NoRoom) =>
              /\ Len(outbox'[c]) = 1
              /\ outbox'[c][1].type = "replay"
              /\ Delivered(outbox'[c]) = WireAll(buffer'[home'[c]])
    /\ \A c \in Conns :
          outbox'[c] # outbox[c] =>
              \/ IngestSucceeded(op', resp') /\ c \in sockets[op'.room]
              \/ home[c] = NoRoom /\ home'[c] # NoRoom

\* C17: an ingest's samples are sent to a socket once at most: in that
\* ingest's live-update when the socket is registered at that moment, and
\* otherwise only in the replay of a later subscribe, which carries what is
\* still buffered; so for a registered socket the buffer is a subsequence of
\* the samples of its replay followed by those of its live-updates.
C17_OneChannelPerSample == []C17_State /\ [][C17_Step]_vars

\* C17 witness: a registered viewer got a sample in its replay and a later
\* batch in a live-update, and the buffer holds fewer samples than it got.
C17_Witness ==
    \E c \in Conns :
        /\ home[c] # NoRoom /\ c \in sockets[home[c]]
        /\ Len(outbox[c]) = 2
        /\ outbox[c][1].samples # <<>>
        /\ outbox[c][2].samples # <<>>
        /\ Len(buffer[home[c]]) < Len(Delivered(outbox[c]))

C18_State == ingests > 0 => \E r \in RoomNames : buffer[r] # <<>>

C18_Step ==
    /\ IngestSucceeded(op', resp') =>
          LET r == op'.room
              samples == op'.rq.body.samples
          IN  /\ \E i \in DOMAIN buffer'[r] : buffer'[r][i].t_ms = LatestOfBatch(samples)
              /\ \A i \in DOMAIN buffer'[r] :
                    buffer'[r][i].t_ms >= LatestOfBatch(samples) - 30000
              /\ resp'.received = Len(ValidSamples(samples))
              /\ \A c \in sockets[r] : Last(outbox'[c]).samples = ValidSamples(samples)
    /\ \A r \in RoomNames : buffer[r] # <<>> => buffer'[r] # <<>>
    /\ \A c \in Conns :
          (home[c] = NoRoom /\ home'[c] # NoRoom /\ buffer[home'[c]] # <<>>)
              => Last(outbox'[c]).samples # <<>>

\* C18: a successful ingest leaves the batch's latest sample in the buffer,
\* so a buffer that has held samples is never empty again and every later
\* replay has samples; the batch's samples older than latest - 30000 are
\* counted in received and sent in the live-update but are not buffered.
C18_LatestSampleSurvives == []C18_State /\ [][C18_Step]_vars

\* C18 witness: of a batch of two samples 39000 ms apart both were counted
\* and sent to a viewer, and the newer one alone is buffered.
C18_Witness ==
    /\ IngestSucceeded(op, resp)
    /\ op.rq.body.samples = <<sA, sB>>
    /\ resp.received = 2
    /\ Times(buffer[op.room]) = <<40000>>
    /\ \E c \in sockets[op.room] : Last(outbox[c]).samples = <<sA, sB>>

\* C19 as claimed: every live-update sent to a socket of the room named S
\* carries the session_id S.
C19_TagMatchesRoom ==
    \A c \in Conns :
        home[c] # NoRoom =>
            \A i \in DOMAIN outbox[c] :
                outbox[c][i].type = "samples" => outbox[c][i].session_id = home[c]

=============================================================================
